---- MODULE Spec2Model ----
(***************************************************************************)
(* Session lifecycle of oai-search-mcp (src/index.ts): the SessionStore,   *)
(* the compaction policy, the web-search handler (single query, with       *)
(* sessions) and the web-search-batch handler (fan-out, no sessions).      *)
(*                                                                         *)
(* Node runs the handlers on one thread: a handler runs without            *)
(* interruption up to its next await of a provider call, so every action   *)
(* below is one such run-to-suspension piece of a handler.                 *)
(***************************************************************************)
EXTENDS Integers, Sequences, FiniteSets, TLC

\* ---------------------------------------------------------------- bounds
MaxTime     == 1   \* the clock stops advancing here
MaxRequests == 3   \* web-search requests ever started
MaxUsage    == 1   \* largest usage.total_tokens the provider reports
MaxBatch    == 3   \* longest batch (the schema allows BatchLimit)
MaxBatches  == 1   \* web-search-batch requests ever started
MaxProbe    == 3   \* largest counter, threshold or response id drawn for a
                   \* function that is applied on its own
MaxStored   == 3   \* most entries of a store that cleanup is applied to
MaxAccess   == 2   \* latest lastAccessAt in such a store

\* ------------------------------------------------------ program constants
CompactMaxRetries == 2      \* compactConversation: const maxRetries = 2
BatchLimit        == 10     \* inputs: z.array(z.string()).min(1).max(10)

\* --------------------------------------------------- values of the model
Omitted     == -1           \* sessionId: undefined
EmptyString == 0            \* sessionId: "" ; lastResponseId: "" ; id: ""
NoSession   == 0            \* Session | undefined : undefined
NoUsage     == -1           \* response.usage undefined

Slots == 1..2               \* handlers of web-search that can be in flight

VARIABLES
  cfg,        \* config: read once from the environment at start-up
  now,        \* Date.now()
  sessions,   \* SessionStore.sessions: the Map's keys in insertion order
  heap,       \* the Session objects, by id (in the Map or held by a handler)
  nextId,     \* nanoid(): the next fresh session id
  nextResp,   \* the provider's next fresh response id
  req,        \* the web-search handlers in flight, by slot
  started,    \* number of web-search requests started so far
  client,     \* what the client does: requests in flight, requests in all
  hung,       \* the event loop is stuck in a loop that never ends
  batch,      \* the web-search-batch handler
  probe       \* shouldCompact applied to a drawn session

vars == <<cfg, now, sessions, heap, nextId, nextResp, req, started, client, hung,
          batch, probe>>

\* ------------------------------------------------------------- Session
\* interface Session
Session(id, createdAt, lastAccessAt) ==
  [id |-> id, lastResponseId |-> EmptyString, createdAt |-> createdAt,
   lastAccessAt |-> lastAccessAt, queryCount |-> 0, totalTokens |-> 0]

\* the keys of the Map
Ids(m) == {m[i] : i \in 1..Len(m)}

\* Map.delete(id): the other keys keep their order
MapDelete(m, id) == SelectSeq(m, LAMBDA x : x # id)

\* eviction in the order of insertion: the Map's first entry
OldestInserted(m, h) == m[1]

\* [...entries].sort((a, b) => a.lastAccessAt - b.lastAccessAt)[0]:
\* the sort is stable, so among equal lastAccessAt the first inserted wins
Oldest(m, h) ==
  m[CHOOSE i \in 1..Len(m) :
      \A j \in 1..Len(m) :
         \/ h[m[j]].lastAccessAt > h[m[i]].lastAccessAt
         \/ (h[m[j]].lastAccessAt = h[m[i]].lastAccessAt /\ j >= i)]

\* the while loop of cleanup: [m, diverges]; with nothing left to delete and
\* size > maxSessions still true the loop spins forever
RECURSIVE EvictLoop(_, _)
EvictLoop(m, h) ==
  IF Len(m) > cfg.maxSessions
    THEN IF m = <<>>
           THEN [m |-> m, diverges |-> TRUE]
           ELSE EvictLoop(MapDelete(m, Oldest(m, h)), h)
    ELSE [m |-> m, diverges |-> FALSE]

\* the sweep with > for >=: an entry is kept when now - lastAccessAt = ttl
SweepStrict(m, h, t) ==
  SelectSeq(m, LAMBDA id : ~(t - h[id].lastAccessAt > cfg.ttl))

\* the for loop of cleanup: the expiry sweep
Sweep(m, h, t) ==
  SelectSeq(m, LAMBDA id : ~(t - h[id].lastAccessAt >= cfg.ttl))

\* cleanup without the while loop: the expiry sweep and no eviction
cleanupSweepOnly(m, h, t) == [m |-> Sweep(m, h, t), diverges |-> FALSE]

\* SessionStore.cleanup
cleanup(m, h, t) == EvictLoop(Sweep(m, h, t), h)

\* create that inserts the session first and runs cleanup after
createThenCleanup(m, h, id, t0, t1, t2) ==
  LET h1 == [x \in (DOMAIN h) \cup {id} |->
               IF x = id THEN Session(id, t1, t2) ELSE h[x]]
  IN [m |-> cleanup(Append(m, id), h1, t2).m, h |-> h1]

\* create that reads the clock for lastAccessAt before createdAt
createReadsBackwards(m, h, id, t0, t1, t2) ==
  [m |-> Append(cleanup(m, h, t0).m, id),
   h |-> [x \in (DOMAIN h) \cup {id} |->
            IF x = id THEN Session(id, t2, t1) ELSE h[x]]]

\* SessionStore.create, when cleanup returns: t0, t1, t2 are its three reads
\* of the clock
create(m, h, id, t0, t1, t2) ==
  [m |-> Append(cleanup(m, h, t0).m, id),
   h |-> [x \in (DOMAIN h) \cup {id} |->
            IF x = id THEN Session(id, t1, t2) ELSE h[x]]]

\* get that forgets the TTL: any entry of the Map is returned
getNoTtl(m, h, id, t) ==
  IF id \in Ids(m) THEN [session |-> id, m |-> m, h |-> h]
  ELSE [session |-> NoSession, m |-> m, h |-> h]

\* get with <= for <: an entry is still returned when now - lastAccessAt = ttl
getOffByOne(m, h, id, t) ==
  IF id \in Ids(m) /\ t - h[id].lastAccessAt <= cfg.ttl
    THEN [session |-> id, m |-> m, h |-> h]
    ELSE IF id \in Ids(m)
           THEN [session |-> NoSession, m |-> MapDelete(m, id), h |-> h]
           ELSE [session |-> NoSession, m |-> m, h |-> h]

\* get that counts as an access: a hit sets lastAccessAt to now
getTouches(m, h, id, t) ==
  IF id \in Ids(m) /\ t - h[id].lastAccessAt < cfg.ttl
    THEN [session |-> id, m |-> m,
          h |-> [h EXCEPT ![id].lastAccessAt = t]]
    ELSE IF id \in Ids(m)
           THEN [session |-> NoSession, m |-> MapDelete(m, id), h |-> h]
           ELSE [session |-> NoSession, m |-> m, h |-> h]

\* SessionStore.get: [session, m, h]; no Session object is written
get(m, h, id, t) ==
  IF id \in Ids(m) /\ t - h[id].lastAccessAt < cfg.ttl
    THEN [session |-> id, m |-> m, h |-> h]
    ELSE IF id \in Ids(m)
           THEN [session |-> NoSession, m |-> MapDelete(m, id), h |-> h]
           ELSE [session |-> NoSession, m |-> m, h |-> h]

\* update that stores the session it was given when the Map has none
updateUpserts(m, h, id, responseId, tokens, t) ==
  [m |-> IF id \in Ids(m) THEN m ELSE Append(m, id),
   h |-> [h EXCEPT ![id].lastResponseId = responseId,
                   ![id].lastAccessAt = t,
                   ![id].queryCount = @ + 1,
                   ![id].totalTokens = @ + tokens]]

\* update that counts the query but keeps the token the session had
updateKeepsToken(m, h, id, responseId, tokens, t) ==
  IF id \in Ids(m)
    THEN [m |-> m,
          h |-> [h EXCEPT ![id].lastAccessAt = t,
                          ![id].queryCount = @ + 1,
                          ![id].totalTokens = @ + tokens]]
    ELSE [m |-> m, h |-> h]

\* update that leaves lastAccessAt alone
updateKeepsAccess(m, h, id, responseId, tokens, t) ==
  IF id \in Ids(m)
    THEN [m |-> m,
          h |-> [h EXCEPT ![id].lastResponseId = responseId,
                          ![id].queryCount = @ + 1,
                          ![id].totalTokens = @ + tokens]]
    ELSE [m |-> m, h |-> h]

\* update with = for +=: totalTokens is the tokens of the last answer
updateReplacesTokens(m, h, id, responseId, tokens, t) ==
  IF id \in Ids(m)
    THEN [m |-> m,
          h |-> [h EXCEPT ![id].lastResponseId = responseId,
                          ![id].lastAccessAt = t,
                          ![id].queryCount = @ + 1,
                          ![id].totalTokens = tokens]]
    ELSE [m |-> m, h |-> h]

\* update that writes only when the session still has the token some query
\* in flight on it was sent with: the second of two overlapping requests
\* finds the token changed and its count is lost
updateIfUnchanged(m, h, id, responseId, tokens, t) ==
  IF /\ id \in Ids(m)
     /\ \E r \in Slots : /\ req[r].pc = "querying"
                         /\ req[r].session = id
                         /\ req[r].sent = h[id].lastResponseId
    THEN [m |-> m,
          h |-> [h EXCEPT ![id].lastResponseId = responseId,
                          ![id].lastAccessAt = t,
                          ![id].queryCount = @ + 1,
                          ![id].totalTokens = @ + tokens]]
    ELSE [m |-> m, h |-> h]

\* SessionStore.update: [m, h]; the Map's keys are never touched
update(m, h, id, responseId, tokens, t) ==
  IF id \in Ids(m)
    THEN [m |-> m,
          h |-> [h EXCEPT ![id].lastResponseId = responseId,
                          ![id].lastAccessAt = t,
                          ![id].queryCount = @ + 1,
                          ![id].totalTokens = @ + tokens]]
    ELSE [m |-> m, h |-> h]

\* resetCounters that forgets totalTokens
resetCountersQueryOnly(m, h, id) ==
  IF id \in Ids(m) THEN [h EXCEPT ![id].queryCount = 0] ELSE h

\* resetCounters that also forgets the token
resetCountersClearsToken(m, h, id) ==
  IF id \in Ids(m)
    THEN [h EXCEPT ![id].queryCount = 0, ![id].totalTokens = 0,
                   ![id].lastResponseId = EmptyString]
    ELSE h

\* resetCounters that zeroes the counters of every session
resetCountersAll(m, h, id) ==
  IF id \in Ids(m)
    THEN [x \in DOMAIN h |->
            [h[x] EXCEPT !.queryCount = 0, !.totalTokens = 0]]
    ELSE h

\* SessionStore.resetCounters
resetCounters(m, h, id) ==
  IF id \in Ids(m)
    THEN [h EXCEPT ![id].queryCount = 0, ![id].totalTokens = 0]
    ELSE h

\* ------------------------------------------------------------ compaction
\* shouldCompact without the test of lastResponseId
shouldCompactIgnoresToken(session) ==
  IF ~cfg.autoCompaction THEN FALSE
  ELSE \/ session.queryCount >= cfg.compactionQueryThreshold
       \/ session.totalTokens >= cfg.compactionTokenThreshold

\* shouldCompact
shouldCompact(session) ==
  IF ~cfg.autoCompaction THEN FALSE
  ELSE IF session.lastResponseId = EmptyString THEN FALSE
  ELSE \/ session.queryCount >= cfg.compactionQueryThreshold
       \/ session.totalTokens >= cfg.compactionTokenThreshold

\* -------------------------------------------------------- the provider
\* What one call of openai.responses.create can come to.  A reply carries a
\* fresh response id; output_text is empty or an answer to the input.
Reply(id, output_text, usage) ==
  [ok |-> TRUE, id |-> id, output_text |-> output_text, usage |-> usage]

Thrown(isError, message) ==
  [ok |-> FALSE, isError |-> isError, message |-> message]

Replies(input, id) ==
  {Reply(id, t, u) :
     t \in {<<>>, <<"re:", input>>}, u \in {NoUsage} \cup (0..MaxUsage)}

\* the words an error message is looked through for, and one it is not
ErrorWords == {"api_key", "rate_limit", "timeout", "boom"}

\* the error messages a failing call can carry, as the words they contain,
\* in any order: one, two or three different words
ErrorMessages ==
  {m \in UNION {[1..n -> ErrorWords] : n \in 1..3} :
     \A i, j \in 1..Len(m) : i # j => m[i] # m[j]}

\* a failing call throws an Error with a message, or something else
Failures ==
  {Thrown(TRUE, m) : m \in ErrorMessages} \cup {Thrown(FALSE, <<>>)}

\* the outcomes of the query of a web-search request: an answer with its
\* usage, or a failure
QueryOutcomes(input, id) ==
  {Reply(id, <<"re:", input>>, u) : u \in {NoUsage, 0, MaxUsage}}
  \cup {Thrown(TRUE, <<"timeout">>)}

\* String.prototype.includes
Includes(message, word) == \E i \in 1..Len(message) : message[i] = word

\* ---------------------------------------------------------- the executor
\* interface SearchResult
SearchResult(text, responseId, tokens) ==
  [text |-> text, responseId |-> responseId, tokens |-> tokens]

\* the catch block with the tests in another order: rate_limit first
ErrorResultRateFirst(e) ==
  LET errorMessage == IF e.isError THEN e.message
                      ELSE <<"Unknown error occurred">>
      errorText ==
        IF Includes(errorMessage, "rate_limit")
          THEN <<"Error: Rate limit exceeded.">>
        ELSE IF Includes(errorMessage, "api_key")
          THEN <<"Error: Invalid API key.">>
        ELSE IF Includes(errorMessage, "timeout")
          THEN <<"Error: Request timeout.">>
        ELSE <<"Error:">> \o errorMessage
  IN [text |-> errorText, responseId |-> EmptyString, tokens |-> 0]

\* no catch block: what the provider call threw is what comes out
ErrorResultPropagates(e) == e

\* the catch block of executeSingleSearch
ErrorResult(e) ==
  LET errorMessage == IF e.isError THEN e.message
                      ELSE <<"Unknown error occurred">>
      errorText ==
        IF Includes(errorMessage, "api_key")
          THEN <<"Error: Invalid API key.">>
        ELSE IF Includes(errorMessage, "rate_limit")
          THEN <<"Error: Rate limit exceeded.">>
        ELSE IF Includes(errorMessage, "timeout")
          THEN <<"Error: Request timeout.">>
        ELSE <<"Error:">> \o errorMessage
  IN SearchResult(errorText, EmptyString, 0)

\* executeSingleSearch, from the provider's outcome to what it returns:
\* it returns in both cases and never throws
executeSingleSearch(outcome) ==
  IF outcome.ok
    THEN SearchResult(
           IF outcome.output_text = <<>>
             THEN <<"No response text available.">>
             ELSE outcome.output_text,
           outcome.id,
           IF outcome.usage = NoUsage THEN 0 ELSE outcome.usage)
    ELSE ErrorResult(outcome)

\* ------------------------------------------------ the web-search handler
NoCompactResult == [success |-> FALSE, newResponseId |-> EmptyString]
NoResponse ==
  [isError |-> FALSE, sessionId |-> NoSession, result |-> <<>>,
   error |-> Omitted, warning |-> FALSE]

\* a slot with no handler in it
Idle ==
  [pc |-> "idle", input |-> "", sessionId |-> Omitted,
   session |-> NoSession,
   attempt |-> 0, sent |-> EmptyString, compactResult |-> NoCompactResult,
   warning |-> FALSE, response |-> NoResponse]

\* the handler's early return for a sessionId that get() does not find
InvalidSessionResponse(sessionId) ==
  [isError |-> TRUE, sessionId |-> NoSession, result |-> <<>>,
   error |-> sessionId, warning |-> FALSE]

\* the handler's final return
SearchResponse(session, result, warning) ==
  [isError |-> FALSE, sessionId |-> session, result |-> result.text,
   error |-> Omitted, warning |-> warning]

\* a handler that never passes previous_response_id with its query
AfterSessionForgetsToken(rq, h, session) ==
  IF shouldCompact(h[session])
    THEN [rq EXCEPT !.pc = "compacting", !.session = session, !.attempt = 1,
                    !.sent = h[session].lastResponseId]
    ELSE [rq EXCEPT !.pc = "querying", !.session = session,
                    !.sent = EmptyString]

\* the handler from "Check if compaction is needed" to its first await:
\* either compactConversation's first attempt or the query itself
AfterSession(rq, h, session) ==
  IF shouldCompact(h[session])
    THEN [rq EXCEPT !.pc = "compacting", !.session = session, !.attempt = 1,
                    !.sent = h[session].lastResponseId]
    ELSE [rq EXCEPT !.pc = "querying", !.session = session,
                    !.sent = h[session].lastResponseId]

\* a handler that tests compactResult.success alone before it sets the
\* warning: a compaction that resolved without an id passes as done
AfterCompactionTrustsSuccess(rq, h, compactResult) ==
  IF compactResult.success
    THEN [rq EXCEPT !.pc = "querying", !.compactResult = compactResult,
                    !.sent = h[rq.session].lastResponseId]
    ELSE [rq EXCEPT !.pc = "querying", !.compactResult = compactResult,
                    !.warning = TRUE,
                    !.sent = h[rq.session].lastResponseId]

\* a handler that has built its query before the compaction: the query
\* goes out with the token read then
AfterCompactionStaleToken(rq, h, compactResult) ==
  IF compactResult.success /\ compactResult.newResponseId # EmptyString
    THEN [rq EXCEPT !.pc = "querying", !.compactResult = compactResult]
    ELSE [rq EXCEPT !.pc = "querying", !.compactResult = compactResult,
                    !.warning = TRUE]

\* a handler that returns an error when compaction fails
AfterCompactionFatal(rq, h, compactResult) ==
  IF compactResult.success /\ compactResult.newResponseId # EmptyString
    THEN [rq EXCEPT !.pc = "querying", !.compactResult = compactResult,
                    !.sent = h[rq.session].lastResponseId]
    ELSE [Idle EXCEPT !.pc = "done", !.input = rq.input,
                      !.response = InvalidSessionResponse(rq.session)]

\* the handler after compactConversation returned: take the new token or
\* set the warning, then issue the query with session.lastResponseId
AfterCompaction(rq, h, compactResult) ==
  IF compactResult.success /\ compactResult.newResponseId # EmptyString
    THEN [rq EXCEPT !.pc = "querying", !.compactResult = compactResult,
                    !.sent = h[rq.session].lastResponseId]
    ELSE [rq EXCEPT !.pc = "querying", !.compactResult = compactResult,
                    !.warning = TRUE,
                    !.sent = h[rq.session].lastResponseId]

\* resetCounters called outside the if: the counters are zeroed whatever
\* compactConversation returned
ApplyCompactionAlwaysResets(m, h, session, compactResult) ==
  IF compactResult.success /\ compactResult.newResponseId # EmptyString
    THEN resetCounters(m,
           [h EXCEPT ![session].lastResponseId = compactResult.newResponseId],
           session)
    ELSE resetCounters(m, h, session)

\* the new token is taken but resetCounters is not called
ApplyCompactionKeepsCounters(m, h, session, compactResult) ==
  IF compactResult.success /\ compactResult.newResponseId # EmptyString
    THEN [h EXCEPT ![session].lastResponseId = compactResult.newResponseId]
    ELSE h

\* the handler tests compactResult.success alone: the id of a compaction
\* that resolved without one becomes the session's token
ApplyCompactionTakesEmpty(m, h, session, compactResult) ==
  IF compactResult.success
    THEN resetCounters(m,
           [h EXCEPT ![session].lastResponseId = compactResult.newResponseId],
           session)
    ELSE h

\* session.lastResponseId = newResponseId; sessionStore.resetCounters(id)
ApplyCompaction(m, h, session, compactResult) ==
  IF compactResult.success /\ compactResult.newResponseId # EmptyString
    THEN resetCounters(m,
           [h EXCEPT ![session].lastResponseId = compactResult.newResponseId],
           session)
    ELSE h

\* sessionStore.update(...) called whatever the result is
ApplyResultUnguarded(m, h, session, result, t) ==
  update(m, h, session, result.responseId, result.tokens, t)

\* if (result.responseId) sessionStore.update(...): [m, h]
ApplyResult(m, h, session, result, t) ==
  IF result.responseId # EmptyString
    THEN update(m, h, session, result.responseId, result.tokens, t)
    ELSE [m |-> m, h |-> h]

\* the Session objects still reachable: those in the Map and those a
\* suspended handler holds in its local variable
Live(m, rq) ==
  Ids(m) \cup {rq[r].session : r \in {x \in Slots :
                                  rq[x].pc \in {"compacting", "querying"}}}

Collect(h, m, rq) == [id \in (DOMAIN h) \cap Live(m, rq) |-> h[id]]

\* the slot the next request runs in
FreeSlot(r) ==
  /\ r \in 1..client.slots
  /\ req[r].pc = "idle"
  /\ \A x \in 1..client.slots : req[x].pc = "idle" => x >= r

CanStart(r) == ~hung /\ started < client.requests /\ FreeSlot(r)

\* the session ids a client can pass: any id handed out so far or not
SessionIds == 1..(MaxRequests + 1)
Inputs == {"q1", "q2", "q3"}
SingleInputs == {"q1"}

idleOthers == UNCHANGED <<batch, probe, cfg, client>>

\* web-search with a sessionId that get() does not find
StartInvalid(r, input, sessionId) ==
  LET g == get(sessions, heap, sessionId, now) IN
  /\ CanStart(r)
  /\ sessionId \in 1..nextId
  /\ g.session = NoSession
  /\ sessions' = g.m
  /\ req' = [req EXCEPT ![r] =
       [Idle EXCEPT !.pc = "done", !.input = input, !.sessionId = sessionId,
                    !.response = InvalidSessionResponse(sessionId)]]
  /\ heap' = Collect(g.h, sessions', req')
  /\ started' = started + 1
  /\ UNCHANGED <<now, nextId, nextResp, hung>>
  /\ idleOthers

\* web-search with a sessionId that get() finds
StartExisting(r, input, sessionId) ==
  LET g == get(sessions, heap, sessionId, now) IN
  /\ CanStart(r)
  /\ sessionId # EmptyString
  /\ g.session # NoSession
  /\ req' = [req EXCEPT ![r] =
       AfterSession([Idle EXCEPT !.input = input, !.sessionId = sessionId],
                    g.h, g.session)]
  /\ sessions' = g.m
  /\ heap' = g.h
  /\ started' = started + 1
  /\ UNCHANGED <<now, nextId, nextResp, hung>>
  /\ idleOthers

\* a handler that tests sessionId !== undefined: "" is looked up like any
\* id, get("") finds nothing and the request fails as an invalid session
StartNewRejectsEmpty(r, input, sessionId, d) ==
  LET c == create(sessions, heap, nextId, now, now, now + d) IN
  /\ CanStart(r)
  /\ sessionId \in {Omitted, EmptyString}
  /\ now + d <= MaxTime
  /\ ~cleanup(sessions, heap, now).diverges
  /\ IF sessionId = EmptyString
       THEN /\ req' = [req EXCEPT ![r] =
                 [Idle EXCEPT !.pc = "done", !.input = input,
                              !.sessionId = sessionId,
                              !.response = InvalidSessionResponse(sessionId)]]
            /\ UNCHANGED <<now, sessions, heap, nextId>>
       ELSE /\ now' = now + d
            /\ sessions' = c.m
            /\ nextId' = nextId + 1
            /\ req' = [req EXCEPT ![r] =
                 AfterSession([Idle EXCEPT !.input = input,
                                           !.sessionId = sessionId],
                              c.h, nextId)]
            /\ heap' = Collect(c.h, sessions', req')
  /\ started' = started + 1
  /\ UNCHANGED <<nextResp, hung>>
  /\ idleOthers

\* web-search without a sessionId (or with ""): create() a session
StartNew(r, input, sessionId, d) ==
  LET c == create(sessions, heap, nextId, now, now, now + d) IN
  /\ CanStart(r)
  /\ sessionId \in {Omitted, EmptyString}
  /\ now + d <= MaxTime
  /\ ~cleanup(sessions, heap, now).diverges
  /\ now' = now + d
  /\ sessions' = c.m
  /\ nextId' = nextId + 1
  /\ req' = [req EXCEPT ![r] =
       AfterSession([Idle EXCEPT !.input = input, !.sessionId = sessionId],
                    c.h, nextId)]
  /\ heap' = Collect(c.h, sessions', req')
  /\ started' = started + 1
  /\ UNCHANGED <<nextResp, hung>>
  /\ idleOthers

\* web-search without a sessionId when cleanup's while loop never ends
StartNewSpins(r, input, sessionId) ==
  /\ CanStart(r)
  /\ sessionId \in {Omitted, EmptyString}
  /\ cleanup(sessions, heap, now).diverges
  /\ sessions' = cleanup(sessions, heap, now).m
  /\ req' = [req EXCEPT ![r] =
       [Idle EXCEPT !.pc = "spinning", !.input = input,
                    !.sessionId = sessionId]]
  /\ heap' = Collect(heap, sessions', req')
  /\ hung' = TRUE
  /\ started' = started + 1
  /\ UNCHANGED <<now, nextId, nextResp>>
  /\ idleOthers

\* one attempt of compactConversation resolves with compacted.id = id
CompactResolve(r, id) ==
  LET compactResult == [success |-> TRUE, newResponseId |-> id]
      h1 == ApplyCompaction(sessions, heap, req[r].session, compactResult)
  IN
  /\ ~hung
  /\ req[r].pc = "compacting"
  /\ id \in {EmptyString, nextResp}
  /\ nextResp' = IF id = EmptyString THEN nextResp ELSE nextResp + 1
  /\ req' = [req EXCEPT ![r] = AfterCompaction(req[r], h1, compactResult)]
  /\ heap' = h1
  /\ UNCHANGED <<now, sessions, nextId, started, hung>>
  /\ idleOthers

\* a loop that goes round once more after its last attempt
TriesAgainOnceMore(attempt) == attempt <= CompactMaxRetries

\* the loop of compactConversation after attempt number `attempt` threw:
\* attempt++, then the test attempt <= maxRetries
TriesAgain(attempt) == attempt + 1 <= CompactMaxRetries

\* one attempt of compactConversation throws: the loop tries again, or
\* compactConversation returns { success: false } and the handler goes on
CompactReject(r) ==
  LET retry == TriesAgain(req[r].attempt)
      h1 == IF retry THEN heap
            ELSE ApplyCompaction(sessions, heap, req[r].session,
                                 NoCompactResult)
  IN
  /\ ~hung
  /\ req[r].pc = "compacting"
  /\ req' = [req EXCEPT ![r] =
       IF retry
         THEN [req[r] EXCEPT !.attempt = @ + 1,
                             !.sent = heap[req[r].session].lastResponseId]
         ELSE AfterCompaction(req[r], h1, NoCompactResult)]
  /\ heap' = h1
  /\ UNCHANGED <<now, sessions, nextId, nextResp, started, hung>>
  /\ idleOthers

\* the query's provider call settles; the handler updates the session and
\* returns
QuerySettle(r) ==
  /\ ~hung
  /\ req[r].pc = "querying"
  /\ \E outcome \in QueryOutcomes(req[r].input, nextResp) :
     LET result == executeSingleSearch(outcome)
         u == ApplyResult(sessions, heap, req[r].session, result, now)
     IN
       /\ nextResp' = IF outcome.ok THEN nextResp + 1 ELSE nextResp
       /\ req' = [req EXCEPT ![r] =
            [Idle EXCEPT !.pc = "done", !.input = req[r].input,
               !.response = SearchResponse(req[r].session, result,
                                           req[r].warning)]]
       /\ sessions' = u.m
       /\ heap' = Collect(u.h, sessions', req')
       /\ UNCHANGED <<now, nextId, started, hung>>
       /\ idleOthers

\* the client takes the response
Deliver(r) ==
  /\ ~hung
  /\ req[r].pc = "done"
  /\ req' = [req EXCEPT ![r] = Idle]
  /\ UNCHANGED <<now, sessions, heap, nextId, nextResp, started, hung>>
  /\ idleOthers

\* the clock advances
Tick ==
  /\ ~hung
  /\ now < MaxTime
  /\ now' = now + 1
  /\ UNCHANGED <<sessions, heap, nextId, nextResp, req, started, hung>>
  /\ idleOthers

\* ------------------------------------------------------- configurations
Config(ttl, maxSessions, autoCompaction, queries, tokens) ==
  [ttl |-> ttl, maxSessions |-> maxSessions,
   autoCompaction |-> autoCompaction,
   compactionQueryThreshold |-> queries,
   compactionTokenThreshold |-> tokens]

\* the settings of the server when requests overlap: compaction is due
\* once a session has used a token; maxSessions is 1, 0 or negative
Configs == {Config(1, n, TRUE, 3, 1) : n \in {-1, 0, 1}}

\* the settings of the server when requests come one by one: compaction
\* off, due by the query count first, due by the tokens first
SeqConfigs ==
  {Config(1, 1, p[1], p[2], p[3]) :
     p \in {<<FALSE, 2, 3>>, <<TRUE, 2, 3>>, <<TRUE, 3, 1>>}}
  \cup Configs

noBatch == [pc |-> "idle"]
noProbe == [pc |-> "idle"]

InitStore ==
  /\ now = 0
  /\ sessions = <<>>
  /\ heap = <<>>
  /\ nextId = 1
  /\ nextResp = 1
  /\ started = 0
  /\ req = [r \in Slots |-> Idle]
  /\ hung = FALSE

Init ==
  /\ cfg \in Configs
  /\ client = [slots |-> 2, requests |-> MaxRequests]
  /\ InitStore
  /\ batch = noBatch
  /\ probe = noProbe

Next ==
  \/ \E r \in Slots, input \in SingleInputs, sessionId \in SessionIds :
       StartInvalid(r, input, sessionId)
  \/ \E r \in Slots, input \in SingleInputs, sessionId \in SessionIds :
       StartExisting(r, input, sessionId)
  \/ \E r \in Slots, input \in SingleInputs,
        sessionId \in {Omitted, EmptyString}, d \in {0, 1} :
       StartNew(r, input, sessionId, d)
  \/ \E r \in Slots, input \in SingleInputs,
        sessionId \in {Omitted, EmptyString} :
       StartNewSpins(r, input, sessionId)
  \/ \E r \in Slots, id \in 0..(2 * MaxRequests) : CompactResolve(r, id)
  \/ \E r \in Slots : CompactReject(r)
  \/ \E r \in Slots : QuerySettle(r)
  \/ \E r \in Slots : Deliver(r)
  \/ Tick

Spec == Init /\ [][Next]_vars

\* every provider call in flight eventually resolves or rejects: the
\* compaction call and the query of every handler
ProviderSettles ==
  \A r \in Slots :
    /\ WF_vars(CompactReject(r)
                 \/ \E id \in 0..(2 * MaxRequests) : CompactResolve(r, id))
    /\ WF_vars(QuerySettle(r))

SpecFair == Init /\ [][Next]_vars /\ ProviderSettles

\* the same handlers when the client sends its requests one after the other
InitSeq ==
  /\ cfg \in SeqConfigs
  /\ client = [slots |-> 1, requests |-> MaxRequests]
  /\ InitStore
  /\ batch = noBatch
  /\ probe = noProbe

SpecSeq == InitSeq /\ [][Next]_vars

\* the same, with a TTL of two ticks of the clock: a session can be looked
\* up a tick after its last access
SeqTtlConfigs == {Config(2, n, TRUE, 3, 1) : n \in {-1, 1}}

InitSeqTtl ==
  /\ cfg \in SeqTtlConfigs
  /\ client = [slots |-> 1, requests |-> MaxRequests]
  /\ InitStore
  /\ batch = noBatch
  /\ probe = noProbe

SpecSeqTtl == InitSeqTtl /\ [][Next]_vars

\* a server that has answered two requests without sessionId, so that the
\* store holds their two sessions, and a client that from now on sends
\* requests with a sessionId only, up to two at a time
InitTwo ==
  /\ cfg = Config(1, 2, TRUE, 3, 1)
  /\ client = [slots |-> 2, requests |-> MaxRequests + 1]
  /\ now = 0
  /\ sessions = <<1, 2>>
  /\ heap \in {[id \in {1, 2} |->
                  [Session(id, 0, 0) EXCEPT !.lastResponseId = id,
                                           !.queryCount = 1,
                                           !.totalTokens = k[id]]] :
                 k \in [{1, 2} -> {0, MaxUsage}]}
  /\ nextId = 3
  /\ nextResp = 3
  /\ started = 2
  /\ req = [r \in Slots |-> Idle]
  /\ hung = FALSE
  /\ batch = noBatch
  /\ probe = noProbe

NextTwo ==
  \/ \E r \in Slots, input \in SingleInputs, sessionId \in SessionIds :
       StartInvalid(r, input, sessionId)
  \/ \E r \in Slots, input \in SingleInputs, sessionId \in SessionIds :
       StartExisting(r, input, sessionId)
  \/ \E r \in Slots, id \in 0..(2 * MaxRequests) : CompactResolve(r, id)
  \/ \E r \in Slots : CompactReject(r)
  \/ \E r \in Slots : QuerySettle(r)
  \/ \E r \in Slots : Deliver(r)
  \/ Tick

SpecTwo == InitTwo /\ [][NextTwo]_vars

\* --------------------------------------------- the web-search-batch handler
\* executeSingleSearchLegacy: the text of executeSingleSearch's result
executeSingleSearchLegacy(outcome) == executeSingleSearch(outcome).text

\* a batch call that continues the conversation of the newest session
CallRequestContinues(input, previousResponseId) ==
  [input |-> input,
   previous_response_id |->
     IF sessions = <<>> THEN previousResponseId
     ELSE heap[sessions[Len(sessions)]].lastResponseId]

\* the request of one provider call: the input and previous_response_id
CallRequest(input, previousResponseId) ==
  [input |-> input, previous_response_id |-> previousResponseId]

\* one entry of Promise.allSettled's result
PendingResult == [status |-> "pending", value |-> <<>>]

\* the promise of executeSingleSearchLegacy settles: the function returns a
\* text for a reply and for a failure alike, so the promise is fulfilled
SettleLegacy(outcome) ==
  [status |-> "fulfilled", value |-> executeSingleSearchLegacy(outcome)]

\* results appended as the calls complete: the next free position is taken
AllSettledAppend(results, i, settled) ==
  LET k == CHOOSE k \in 1..Len(results) :
             /\ results[k].status = "pending"
             /\ \A j \in 1..(k - 1) : results[j].status # "pending"
  IN [results EXCEPT ![k] = settled]

\* Promise.allSettled keeps the result of promise i at position i
AllSettledPut(results, i, settled) == [results EXCEPT ![i] = settled]

\* results.map((result, index) => ...): what every output format shows of
\* one query
BatchItem(inputs, results, index) ==
  [query  |-> inputs[index],
   index  |-> index,
   status |-> IF results[index].status = "fulfilled" THEN "success"
              ELSE "error",
   result |-> IF results[index].status = "fulfilled"
                THEN results[index].value ELSE <<>>]

NoCount == -1

\* the handler after Promise.allSettled: the per-query items and, in the
\* structured format, the statistics
BatchOutput(inputs, results, outputFormat) ==
  LET n == Len(inputs)
      fulfilled == {i \in 1..n : results[i].status = "fulfilled"}
      rejected  == {i \in 1..n : results[i].status = "rejected"}
  IN [outputFormat |-> outputFormat,
      items |-> [i \in 1..n |-> BatchItem(inputs, results, i)],
      successCount |-> IF outputFormat = "structured"
                         THEN Cardinality(fulfilled) ELSE NoCount,
      errorCount   |-> IF outputFormat = "structured"
                         THEN Cardinality(rejected) ELSE NoCount]

OutputFormats == {"structured", "plain", "json"}

\* the outcomes of one provider call of a batch
BatchOutcomes(input, id) ==
  {Reply(id, <<"re:", input>>, MaxUsage),
   Thrown(TRUE, <<"rate_limit", "timeout">>)}

\* the batches a client can send
BatchInputs ==
  UNION {[1..n -> Inputs] : n \in 1..(IF MaxBatch < BatchLimit THEN MaxBatch
                                       ELSE BatchLimit)}

idleSingle == UNCHANGED <<cfg, client, now, sessions, heap, nextId, req, hung,
                          probe>>

\* web-search-batch: inputs.map(...) starts one call per input, then the
\* handler awaits Promise.allSettled
BatchStart(inputs, outputFormat) ==
  /\ batch.pc = "idle"
  /\ started < client.requests
  /\ batch' = [pc |-> "waiting", inputs |-> inputs,
               outputFormat |-> outputFormat,
               calls |-> [i \in 1..Len(inputs) |->
                            CallRequest(inputs[i], EmptyString)],
               pending |-> 1..Len(inputs),
               outcomes |-> [i \in 1..Len(inputs) |-> Thrown(FALSE, <<>>)],
               results |-> [i \in 1..Len(inputs) |-> PendingResult],
               output |-> BatchOutput(<<>>, <<>>, outputFormat)]
  /\ started' = started + 1
  /\ UNCHANGED nextResp
  /\ idleSingle

\* the provider call of input i settles, in any order
BatchCallSettle(i) ==
  /\ batch.pc = "waiting"
  /\ i \in batch.pending
  /\ \E outcome \in BatchOutcomes(batch.inputs[i], nextResp) :
       /\ batch' = [batch EXCEPT
            !.pending = @ \ {i},
            !.outcomes[i] = outcome,
            !.results = AllSettledPut(@, i, SettleLegacy(outcome))]
       /\ nextResp' = IF outcome.ok THEN nextResp + 1 ELSE nextResp
  /\ UNCHANGED started
  /\ idleSingle

\* a handler that returns as soon as one call has settled
BatchFinishFirstSettled ==
  /\ batch.pc = "waiting"
  /\ batch.pending # 1..Len(batch.inputs)
  /\ batch' = [batch EXCEPT
       !.pc = "done",
       !.output = BatchOutput(batch.inputs, batch.results,
                              batch.outputFormat)]
  /\ UNCHANGED <<nextResp, started>>
  /\ idleSingle

\* every call has settled: Promise.allSettled resolves and the handler
\* returns the output
BatchFinish ==
  /\ batch.pc = "waiting"
  /\ batch.pending = {}
  /\ batch' = [batch EXCEPT
       !.pc = "done",
       !.output = BatchOutput(batch.inputs, batch.results,
                              batch.outputFormat)]
  /\ UNCHANGED <<nextResp, started>>
  /\ idleSingle

\* the client takes the batch's output
BatchDeliver ==
  /\ batch.pc = "done"
  /\ batch' = noBatch
  /\ UNCHANGED <<nextResp, started>>
  /\ idleSingle

InitBatch ==
  /\ cfg = Config(1, 1, TRUE, 3, 1)
  /\ client = [slots |-> 0, requests |-> MaxBatches]
  /\ InitStore
  /\ batch = noBatch
  /\ probe = noProbe

NextBatch ==
  \/ \E inputs \in BatchInputs, outputFormat \in OutputFormats :
       BatchStart(inputs, outputFormat)
  \/ \E i \in 1..BatchLimit : BatchCallSettle(i)
  \/ BatchFinish
  \/ BatchDeliver

SpecBatch == InitBatch /\ [][NextBatch]_vars

\* the batch handler in a server that has answered one web-search request
\* a TTL ago: the session of that request is in the store, with its token
\* and counters, and has expired without having been touched since
InitBatchStore ==
  /\ cfg = Config(1, 1, TRUE, 3, 1)
  /\ client = [slots |-> 0, requests |-> 1 + MaxBatches]
  /\ now = MaxTime
  /\ sessions = <<1>>
  /\ heap = [id \in {1} |->
               [Session(1, 0, 0) EXCEPT !.lastResponseId = 1,
                                        !.queryCount = 1,
                                        !.totalTokens = MaxUsage]]
  /\ nextId = 2
  /\ nextResp = 2
  /\ started = 1
  /\ req = [r \in Slots |-> Idle]
  /\ hung = FALSE
  /\ batch = noBatch
  /\ probe = noProbe

SpecBatchStore == InitBatchStore /\ [][NextBatch]_vars

\* ------------------------------------------- shouldCompact on its own
\* the sessions and settings shouldCompact is applied to
ProbeSessions ==
  {[Session(1, 0, 0) EXCEPT !.lastResponseId = t, !.queryCount = q,
                            !.totalTokens = k] :
     t \in {EmptyString, 1}, q \in 0..MaxProbe, k \in 0..MaxProbe}

ProbeConfigs ==
  {Config(1, 1, a, q, k) : a \in BOOLEAN, q \in 0..MaxProbe, k \in 0..MaxProbe}

ProbeShouldCompact ==
  /\ probe.pc = "drawn"
  /\ probe' = [probe EXCEPT !.pc = "applied",
                            !.result = shouldCompact(probe.session)]
  /\ UNCHANGED <<cfg, client, now, sessions, heap, nextId, nextResp, req,
                 started, hung, batch>>

InitProbe ==
  /\ cfg \in ProbeConfigs
  /\ client = [slots |-> 0, requests |-> 0]
  /\ InitStore
  /\ batch = noBatch
  /\ probe \in {[pc |-> "drawn", session |-> s, result |-> FALSE] :
                  s \in ProbeSessions}

NextProbe == ProbeShouldCompact

SpecProbe == InitProbe /\ [][NextProbe]_vars

\* ---------------------------------------- executeSingleSearch on its own
\* the calls executeSingleSearch is applied to: an input and what the
\* provider call comes to
ExecCalls ==
  {[input |-> input, outcome |-> o] :
     input \in Inputs,
     o \in UNION {Replies(i, id) : i \in Inputs, id \in 1..MaxProbe}
            \cup Failures}

ProbeExecute ==
  /\ probe.pc = "called"
  /\ probe' = [probe EXCEPT !.pc = "returned",
                            !.result = executeSingleSearch(probe.outcome)]
  /\ UNCHANGED <<cfg, client, now, sessions, heap, nextId, nextResp, req,
                 started, hung, batch>>

InitExec ==
  /\ cfg = Config(1, 1, TRUE, 3, 1)
  /\ client = [slots |-> 0, requests |-> 0]
  /\ InitStore
  /\ batch = noBatch
  /\ probe \in {[pc |-> "called", input |-> c.input, outcome |-> c.outcome,
                  result |-> SearchResult(<<>>, EmptyString, 0)] :
                   c \in ExecCalls}

NextExec == ProbeExecute

SpecExec == InitExec /\ [][NextExec]_vars

\* ------------------------------------------------ cleanup on its own
\* the settings cleanup is applied under: nothing has expired, or all but
\* the entries accessed last have
EvictConfigs ==
  {Config(ttl, n, TRUE, 3, 1) :
     ttl \in {1, MaxAccess + 1}, n \in 0..(MaxStored - 1)}

\* the stores create() can find: up to maxSessions + 1 entries, inserted in
\* the order of their ids, each last accessed at some time up to now
StoredHeaps(n) ==
  {[id \in 1..n |-> [Session(id, 0, a[id]) EXCEPT !.lastResponseId = id,
                                                 !.queryCount = 1]] :
     a \in [1..n -> 0..MaxAccess]}

\* create() runs cleanup() on the store
ProbeCleanup ==
  /\ probe.pc = "stored"
  /\ ~cleanup(sessions, heap, now).diverges
  /\ sessions' = cleanup(sessions, heap, now).m
  /\ heap' = Collect(heap, sessions', req)
  /\ probe' = [probe EXCEPT !.pc = "cleaned"]
  /\ UNCHANGED <<cfg, client, now, nextId, nextResp, req, started, hung,
                 batch>>

InitEvict ==
  /\ cfg \in EvictConfigs
  /\ client = [slots |-> 0, requests |-> 0]
  /\ now = MaxAccess
  /\ \E n \in 0..MaxStored :
       /\ n <= cfg.maxSessions + 1
       /\ sessions = [i \in 1..n |-> i]
       /\ heap \in StoredHeaps(n)
       /\ nextId = n + 1
       /\ nextResp = n + 1
       /\ started = n
  /\ req = [r \in Slots |-> Idle]
  /\ hung = FALSE
  /\ batch = noBatch
  /\ probe = [pc |-> "stored", m |-> sessions, h |-> heap]

NextEvict == ProbeCleanup

SpecEvict == InitEvict /\ [][NextEvict]_vars

\* --------------------------------- update and resetCounters on their own
\* the calls of update and resetCounters: on a store of up to MaxStored
\* entries, for the id of an entry or an id the store does not have
StoreCalls ==
  UNION {{[m |-> [i \in 1..n |-> i],
           h |-> [i \in 1..n |-> [h[i] EXCEPT !.totalTokens = MaxUsage]],
           id |-> id, responseId |-> n + 1, tokens |-> tokens] :
            h \in StoredHeaps(n), id \in 1..(n + 1),
            tokens \in 0..MaxUsage} :
         n \in 0..MaxStored}

\* sessionStore.update(id, responseId, tokens)
ProbeUpdate ==
  LET u == update(sessions, heap, probe.id, probe.responseId, probe.tokens,
                  now)
  IN
  /\ probe.pc = "stored"
  /\ sessions' = u.m
  /\ heap' = u.h
  /\ probe' = [probe EXCEPT !.pc = "updated"]
  /\ UNCHANGED <<cfg, client, now, nextId, nextResp, req, started, hung,
                 batch>>

\* sessionStore.resetCounters(id)
ProbeResetCounters ==
  /\ probe.pc = "stored"
  /\ heap' = resetCounters(sessions, heap, probe.id)
  /\ probe' = [probe EXCEPT !.pc = "reset"]
  /\ UNCHANGED <<cfg, client, now, sessions, nextId, nextResp, req, started,
                 hung, batch>>

InitStoreCall ==
  /\ cfg = Config(1, MaxStored, TRUE, 3, 1)
  /\ client = [slots |-> 0, requests |-> 0]
  /\ now = MaxAccess
  /\ \E c \in StoreCalls :
       /\ sessions = c.m
       /\ heap = c.h
       /\ nextId = Len(c.m) + 1
       /\ nextResp = Len(c.m) + 1
       /\ started = Len(c.m)
       /\ probe = [pc |-> "stored", m |-> c.m, h |-> c.h, id |-> c.id,
                   responseId |-> c.responseId, tokens |-> c.tokens]
  /\ req = [r \in Slots |-> Idle]
  /\ hung = FALSE
  /\ batch = noBatch

NextStoreCall == ProbeUpdate \/ ProbeResetCounters

SpecStoreCall == InitStoreCall /\ [][NextStoreCall]_vars

\* ======================================================== properties
\* get(id) would return the session: the entry is in the Map and younger
\* than the TTL
Valid(id) ==
  /\ id \in Ids(sessions)
  /\ now - heap[id].lastAccessAt < cfg.ttl

\* this step starts a web-search request in slot r
Starts(r) == req[r].pc = "idle" /\ req'[r].pc # "idle"

\* the request in slot r passed a sessionId (not undefined, not "")
Supplied(rq) == rq.sessionId \notin {Omitted, EmptyString}

\* the compaction of the request rq succeeded with a usable token
Compacted(rq) ==
  rq.compactResult.success /\ rq.compactResult.newResponseId # EmptyString

\* C1 (as claimed): when create() returns, the store holds at most
\* maxSessions entries (here for maxSessions >= 1).
C1_CapacityAfterCreate ==
  [][(nextId' # nextId /\ cfg.maxSessions >= 1)
       => Len(sessions') <= cfg.maxSessions]_vars

\* C2: a request that passes a sessionId gets the session from get(id) if
\* and only if id was handed out by an earlier create, its entry is still in
\* the store and now - lastAccessAt < ttl; otherwise get returns absent.
C2_GetIffValid ==
  [][\A r \in Slots :
       (Starts(r) /\ Supplied(req'[r]))
         => ((req'[r].session = req'[r].sessionId)
               <=> (/\ req'[r].sessionId < nextId
                    /\ Valid(req'[r].sessionId)))]_vars

\* a request was refused for the only session ever created, which no
\* eviction can have removed: it had expired
C2_Witness ==
  \E r \in Slots :
    /\ req[r].pc = "done"
    /\ req[r].response.isError
    /\ req[r].response.error = 1
    /\ nextId = 2
    /\ cfg.maxSessions = 1

C4_BatchOrder ==
  batch.pc = "done" =>
    /\ Len(batch.output.items) = Len(batch.inputs)
    /\ \A i \in 1..Len(batch.inputs) :
         /\ batch.output.items[i].query = batch.inputs[i]
         /\ batch.output.items[i].index = i
         /\ batch.output.items[i].result
              = executeSingleSearchLegacy(batch.outcomes[i])
         /\ (batch.outcomes[i].ok /\ batch.outcomes[i].output_text # <<>>)
              => batch.output.items[i].result = <<"re:", batch.inputs[i]>>

\* a batch of three different queries returned, the call of the third having
\* completed first and the call of the first last
C4_Witness ==
  /\ batch.pc = "done"
  /\ Len(batch.inputs) = 3
  /\ Cardinality({batch.inputs[i] : i \in 1..3}) = 3
  /\ \A i \in 1..3 : batch.outcomes[i].ok
  /\ batch.outcomes[3].id < batch.outcomes[2].id
  /\ batch.outcomes[2].id < batch.outcomes[1].id

\* C5 (as claimed): when the provider call of exactly one query of a batch
\* fails, that query's item has status error, every other item has status
\* success, and the success count is the number of calls that succeeded.
C5_BatchPartialFailure ==
  (batch.pc = "done"
     /\ Cardinality({i \in 1..Len(batch.inputs) : ~batch.outcomes[i].ok}) = 1)
  => /\ \A i \in 1..Len(batch.inputs) :
          batch.output.items[i].status
            = IF batch.outcomes[i].ok THEN "success" ELSE "error"
     /\ batch.outputFormat = "structured"
          => batch.output.successCount = Len(batch.inputs) - 1

\* C6: shouldCompact is false for a session without continuation token;
\* for a session with one it is true exactly when auto-compaction is on and
\* one of the two counters has reached its threshold.
C6_ShouldCompact ==
  probe.pc = "applied" =>
    IF probe.session.lastResponseId = EmptyString
      THEN probe.result = FALSE
      ELSE probe.result
             <=> /\ cfg.autoCompaction
                 /\ \/ probe.session.queryCount
                         >= cfg.compactionQueryThreshold
                    \/ probe.session.totalTokens
                         >= cfg.compactionTokenThreshold

\* shouldCompact was applied to a session without token whose counters are
\* both over their thresholds, auto-compaction being on
C6_Witness ==
  /\ probe.pc = "applied"
  /\ probe.session.lastResponseId = EmptyString
  /\ cfg.autoCompaction
  /\ probe.session.queryCount > cfg.compactionQueryThreshold
  /\ probe.session.totalTokens > cfg.compactionTokenThreshold
  /\ probe.result = FALSE

\* C7: in the step in which a compaction succeeds for a session still in
\* the store, which is the step that issues the request's query, the
\* session's counters are 0 and its token is the compaction's new token.
C7_CompactionResets ==
  [][\A r \in Slots :
       (/\ req[r].pc = "compacting"
        /\ req'[r].pc = "querying"
        /\ Compacted(req'[r])
        /\ req[r].session \in Ids(sessions))
         => /\ heap'[req[r].session].queryCount = 0
            /\ heap'[req[r].session].totalTokens = 0
            /\ heap'[req[r].session].lastResponseId
                 = req'[r].compactResult.newResponseId
            /\ req'[r].compactResult.newResponseId = nextResp]_vars

\* a query is in flight after a successful compaction of a session of the
\* store that had used tokens
C7_Witness ==
  \E r \in Slots :
    /\ req[r].pc = "querying"
    /\ Compacted(req[r])
    /\ req[r].session \in Ids(sessions)
    /\ cfg.compactionTokenThreshold = 1
    /\ heap[req[r].session].totalTokens = 0
    /\ heap[req[r].session].lastResponseId
         = req[r].compactResult.newResponseId

\* C8: no step of a compaction that fails (an attempt that throws, be it the
\* first or the last) changes a session or the store.
C8_FailedCompactionFrame ==
  [][\A r \in Slots :
       (/\ req[r].pc = "compacting"
        /\ \/ req'[r].pc = "compacting" /\ req'[r].attempt = req[r].attempt + 1
           \/ req'[r].pc = "querying" /\ ~req'[r].compactResult.success)
         => heap' = heap /\ sessions' = sessions]_vars

\* both attempts have failed for a session of the store whose counters are
\* not 0
C8_Witness ==
  \E r \in Slots :
    /\ req[r].pc = "querying"
    /\ req[r].attempt = CompactMaxRetries
    /\ ~req[r].compactResult.success
    /\ req[r].warning
    /\ req[r].session \in Ids(sessions)
    /\ heap[req[r].session].queryCount > 0

\* C9: when the last compaction attempt fails the request issues its query
\* with the session's token, which no compaction has replaced, and the
\* request then returns a response that is no error and has the session id,
\* the query's result and the warning.
C9_CompactionFailureNotFatal ==
  [][\A r \in Slots :
       /\ (/\ req[r].pc = "compacting"
           /\ req[r].attempt = CompactMaxRetries
           /\ req'[r] # req[r]
           /\ ~Compacted(req'[r]))
            => /\ req'[r].pc = "querying"
               /\ req'[r].warning
               /\ req'[r].session = req[r].session
               /\ req'[r].sent = heap[req[r].session].lastResponseId
               /\ heap' = heap
       /\ (req[r].pc = "querying" /\ req[r].warning /\ req'[r] # req[r])
            => /\ req'[r].pc = "done"
               /\ ~req'[r].response.isError
               /\ req'[r].response.sessionId = req[r].session
               /\ req'[r].response.warning
               /\ req'[r].response.result # <<>>]_vars

\* a request returned an answer with the warning
C9_Witness ==
  \E r \in Slots :
    /\ req[r].pc = "done"
    /\ ~req[r].response.isError
    /\ req[r].response.warning
    /\ req[r].response.result = <<"re:", req[r].input>>

\* C10: requests sent one after the other, auto-compaction on, query
\* threshold 2, token threshold not reached: a request on a session that has
\* completed two queries starts with a compaction attempt, and when that
\* compaction and then the query succeed the session's queryCount is 1.
C10_ThirdRequestCompacts ==
  [][\A r \in Slots :
       (cfg.autoCompaction /\ cfg.compactionQueryThreshold = 2)
         => /\ (/\ Starts(r)
                /\ Supplied(req'[r])
                /\ Valid(req'[r].sessionId)
                /\ heap[req'[r].sessionId].queryCount = 2
                /\ heap[req'[r].sessionId].totalTokens
                     < cfg.compactionTokenThreshold)
                 => req'[r].pc = "compacting" /\ req'[r].attempt = 1
            /\ (/\ req[r].pc = "querying"
                /\ Compacted(req[r])
                /\ req'[r].pc = "done"
                /\ nextResp' # nextResp)
                 => /\ req[r].session \in Ids(sessions')
                    /\ heap'[req[r].session].queryCount = 1]_vars

\* one session, three requests, four responses of the provider (query,
\* query, compaction, query): the third request has returned and the
\* session's queryCount is 1
C10_Witness ==
  /\ cfg.autoCompaction
  /\ cfg.compactionQueryThreshold = 2
  /\ started = 3
  /\ nextId = 2
  /\ nextResp = 5
  /\ \E r \in Slots : req[r].pc = "done" /\ ~req[r].response.isError
  /\ 1 \in Ids(sessions)
  /\ heap[1].queryCount = 1
  /\ heap[1].totalTokens < cfg.compactionTokenThreshold

\* the query of the request in slot r settles in this step
Settles(r) == req[r].pc = "querying" /\ req'[r].pc = "done"

\* the provider call that settles in this step failed: no response was made
Failed == nextResp' = nextResp

\* C11: requests sent one after the other.  From the step that issues the
\* query of a request to the step in which that query fails, no step
\* changes a session or an entry of the store (token, counters and
\* lastAccessAt stay what they were when the call was issued), and the
\* request returns the error text as an ordinary response.
C11_FailedQueryFrame ==
  [][\A r \in Slots :
       /\ (req[r].pc = "querying" /\ ~(Settles(r) /\ ~Failed))
            => /\ sessions' = sessions
               /\ \A id \in Ids(sessions) : heap'[id] = heap[id]
       /\ (Settles(r) /\ Failed)
            => /\ ~req'[r].response.isError
               /\ req'[r].response.sessionId = req[r].session
               /\ req'[r].response.result = <<"Error: Request timeout.">>]_vars

\* a request has returned the error text for a session of the store that
\* still has the token and the count of an earlier successful query
C11_Witness ==
  \E r \in Slots :
    /\ req[r].pc = "done"
    /\ req[r].response.result = <<"Error: Request timeout.">>
    /\ req[r].response.sessionId \in Ids(sessions)
    /\ heap[req[r].response.sessionId].lastResponseId # EmptyString
    /\ heap[req[r].response.sessionId].queryCount = 1

\* C12: when a query succeeds for a session that is no longer in the store
\* (evicted, or deleted by a get that found it expired), the update is a
\* no-op: the request returns its answer as usual, no entry is created and
\* every session of the store is as it was.
C12_UpdateAbsentNoOp ==
  [][\A r \in Slots :
       (Settles(r) /\ ~Failed /\ req[r].session \notin Ids(sessions))
         => /\ sessions' = sessions
            /\ \A id \in Ids(sessions) : heap'[id] = heap[id]
            /\ ~req'[r].response.isError
            /\ req'[r].response.sessionId = req[r].session
            /\ req'[r].response.result = <<"re:", req[r].input>>]_vars

\* a request has returned an answer for a session that is not in the store,
\* and another request was refused for that same session id: get had
\* returned absent for it
C12_Witness ==
  \E r \in Slots, x \in Slots :
    /\ req[r].pc = "done"
    /\ req[r].response.result = <<"re:", req[r].input>>
    /\ req[r].response.sessionId \notin Ids(sessions)
    /\ req[x].pc = "done"
    /\ req[x].response.isError
    /\ req[x].response.error = req[r].response.sessionId

\* the request in slot r issues its query in this step
Issues(r) == req[r].pc # "querying" /\ req'[r].pc = "querying"

\* the compaction of the request in slot r succeeds in this step
Compacts(r) ==
  req[r].pc = "compacting" /\ req'[r].pc = "querying" /\ Compacted(req'[r])

\* C13: requests sent one after the other.  The query of a request that
\* created its session is sent without prior token.  A stored session's
\* token changes only when a query on it succeeds or a compaction of it
\* succeeds, and is then the id the provider returned in that step; a failed
\* query leaves it alone.  Every query is sent with the session's token as
\* it is when the query is issued, the compacted one after a compaction.
C13_SessionContinuity ==
  [][/\ \A r \in Slots :
          /\ (Starts(r) /\ ~Supplied(req'[r]) /\ req'[r].pc # "spinning")
               => req'[r].pc = "querying" /\ req'[r].sent = EmptyString
          /\ Issues(r)
               => /\ req'[r].sent = heap'[req'[r].session].lastResponseId
                  /\ Compacted(req'[r])
                       => req'[r].sent = req'[r].compactResult.newResponseId
     /\ \A id \in Ids(sessions) \cap Ids(sessions') :
          heap'[id].lastResponseId =
            IF \E r \in Slots :
                 /\ req[r].session = id
                 /\ (Settles(r) /\ ~Failed) \/ Compacts(r)
              THEN nextResp
              ELSE heap[id].lastResponseId]_vars

\* the third request is the second that the provider answers: its query is
\* in flight on the only session ever created, with the id of the first
\* answer as prior token
C13_Witness ==
  \E r \in Slots :
    /\ req[r].pc = "querying"
    /\ Supplied(req[r])
    /\ started = 3
    /\ nextId = 2
    /\ nextResp = 2
    /\ req[r].sent = 1
    /\ heap[req[r].session].queryCount = 1

\* C14: two requests on one stored session, both in flight with the same
\* prior token.  When the query of one succeeds the session takes its id as
\* token, while the other stays in flight with the token it has sent, which
\* is now stale.  When a query sent with a stale token succeeds, the session
\* takes its id and counts it: the turn the session's token stood for until
\* then is neither the new token nor the turn the new token continues.
C14_SameSessionRace ==
  [][\A r \in Slots : \A x \in Slots \ {r} :
       /\ (/\ req[r].pc = "querying" /\ req[x].pc = "querying"
           /\ req[r].session = req[x].session
           /\ req[r].session \in Ids(sessions)
           /\ req[r].sent = req[x].sent
           /\ Settles(r) /\ ~Failed)
            => /\ heap'[req[r].session].lastResponseId = nextResp
               /\ req'[x].pc = "querying"
               /\ req'[x].sent = req[x].sent
               /\ req'[x].sent # heap'[req[x].session].lastResponseId
       /\ (/\ req[x].session \in Ids(sessions)
           /\ req[x].sent # heap[req[x].session].lastResponseId
           /\ Settles(x) /\ ~Failed)
            => /\ heap'[req[x].session].lastResponseId = nextResp
               /\ heap'[req[x].session].queryCount
                    = heap[req[x].session].queryCount + 1
               /\ heap[req[x].session].lastResponseId
                    \notin {nextResp, req[x].sent}]_vars

\* two queries are in flight on one stored session, both sent with the same
\* token of an earlier answer
C14_Witness ==
  /\ req[1].pc = "querying" /\ req[2].pc = "querying"
  /\ req[1].session = req[2].session
  /\ req[1].session \in Ids(sessions)
  /\ req[1].sent = req[2].sent
  /\ req[1].sent # EmptyString
  /\ req[1].sent = heap[req[1].session].lastResponseId

\* C15: no step of a batch, whatever its calls come to, changes the store:
\* the Map, the Session objects and the next session id stay as they were,
\* an expired entry included; and every provider call of a batch is sent
\* without previous_response_id.
C15_BatchStateless ==
  [][/\ sessions' = sessions
     /\ heap' = heap
     /\ nextId' = nextId
     /\ batch'.pc # "idle"
          => \A i \in 1..Len(batch'.calls) :
               /\ batch'.calls[i].input = batch'.inputs[i]
               /\ batch'.calls[i].previous_response_id = EmptyString]_vars

\* a batch has returned, one call answered and one failed, while the store
\* holds a session with a token, which has expired
C15_Witness ==
  /\ batch.pc = "done"
  /\ \E i, j \in 1..Len(batch.inputs) :
       batch.outcomes[i].ok /\ ~batch.outcomes[j].ok
  /\ sessions = <<1>>
  /\ heap[1].lastResponseId # EmptyString
  /\ now - heap[1].lastAccessAt >= cfg.ttl

\* the calls of the batch that have settled
Settled(b) == {i \in 1..Len(b.inputs) : b.results[i].status # "pending"}

\* C16: a batch of N queries starts N provider calls in the step that
\* receives it, call i for query i, all pending before the handler waits.
\* The step in which one call settles, by an answer or by a failure, settles
\* that call alone: every other call stays as it is, pending ones pending.
\* The batch returns only in a step taken when all N calls have settled, and
\* its output has an item for each.
C16_BatchWaitsForAll ==
  [][/\ (batch.pc = "idle" /\ batch'.pc # "idle")
          => /\ batch'.pc = "waiting"
             /\ Len(batch'.calls) = Len(batch'.inputs)
             /\ \A i \in 1..Len(batch'.inputs) :
                  batch'.calls[i].input = batch'.inputs[i]
             /\ batch'.pending = 1..Len(batch'.inputs)
             /\ Settled(batch') = {}
     /\ (batch.pc = "waiting" /\ batch'.pc = "waiting")
          => /\ batch'.calls = batch.calls
             /\ \E i \in batch.pending :
                  /\ batch'.pending = batch.pending \ {i}
                  /\ Settled(batch') = Settled(batch) \cup {i}
                  /\ \A j \in 1..Len(batch.inputs) \ {i} :
                       /\ batch'.results[j] = batch.results[j]
                       /\ batch'.outcomes[j] = batch.outcomes[j]
     /\ (batch.pc = "waiting" /\ batch'.pc = "done")
          => /\ batch.pending = {}
             /\ Settled(batch) = 1..Len(batch.inputs)
             /\ batch'.results = batch.results
             /\ Len(batch'.output.items) = Len(batch.inputs)]_vars

\* a batch of three has returned: its second call failed, the third was
\* answered, and the first was answered after the third
C16_Witness ==
  /\ batch.pc = "done"
  /\ Len(batch.inputs) = 3
  /\ ~batch.outcomes[2].ok
  /\ batch.outcomes[1].ok /\ batch.outcomes[3].ok
  /\ batch.outcomes[3].id < batch.outcomes[1].id
  /\ batch.output.items[1].result = <<"re:", batch.inputs[1]>>
  /\ batch.output.items[3].result = <<"re:", batch.inputs[3]>>

\* C17: when cleanup has run on a store, the entries the while loop has
\* evicted (those that had not expired and are gone) number what the store
\* held beyond maxSessions, and each was last accessed no later than every
\* entry that is kept; the kept entries are unchanged and in their order.
C17_EvictsLeastRecent ==
  probe.pc = "cleaned" =>
    LET live    == Ids(Sweep(probe.m, probe.h, now))
        kept    == Ids(sessions)
        evicted == live \ kept
    IN /\ kept \subseteq live
       /\ Cardinality(evicted)
            = IF Cardinality(live) > cfg.maxSessions
                THEN Cardinality(live) - cfg.maxSessions ELSE 0
       /\ \A x \in evicted : \A y \in kept :
            probe.h[x].lastAccessAt <= probe.h[y].lastAccessAt
       /\ sessions = SelectSeq(probe.m, LAMBDA id : id \in kept)
       /\ \A y \in kept : heap[y] = probe.h[y]

\* cleanup has evicted the second of two entries that had not expired: the
\* first inserted was accessed later
C17_Witness ==
  /\ probe.pc = "cleaned"
  /\ probe.m = <<1, 2>>
  /\ sessions = <<1>>
  /\ now - probe.h[2].lastAccessAt < cfg.ttl
  /\ probe.h[1].lastAccessAt > probe.h[2].lastAccessAt

\* C18: the step of a request for which get(id) returns a session changes
\* no field of any session and removes no entry; and lastAccessAt of a
\* stored session changes only in the step in which a query on that session
\* succeeds, to the time of that step.
C18_GetReadOnly ==
  [][/\ \A r \in Slots :
          (Starts(r) /\ Supplied(req'[r]) /\ req'[r].session # NoSession)
            => sessions' = sessions /\ heap' = heap
     /\ \A id \in Ids(sessions) \cap Ids(sessions') :
          heap'[id].lastAccessAt # heap[id].lastAccessAt
            => /\ \E r \in Slots :
                    req[r].session = id /\ Settles(r) /\ ~Failed
               /\ heap'[id].lastAccessAt = now]_vars

\* the query of the second request is in flight on the session of the
\* first, which get() has returned; the session's lastAccessAt is a tick
\* old: no get has advanced it
C18_Witness ==
  \E r \in Slots :
    /\ req[r].pc = "querying"
    /\ Supplied(req[r])
    /\ req[r].session \in Ids(sessions)
    /\ started = 2
    /\ now = 1
    /\ heap[req[r].session].lastAccessAt = 0

\* the first words of the texts executeSingleSearch makes of a failure
ErrorHeads ==
  {"Error: Invalid API key.", "Error: Rate limit exceeded.",
   "Error: Request timeout.", "Error:"}

\* C19: executeSingleSearch returns a result (text, responseId, tokens)
\* whatever the provider call comes to.  For a failure, of any kind and
\* message, the text is an error message, the responseId empty and the
\* tokens 0.  For an answer the text is not empty, the responseId is the
\* provider's response id and the tokens are its usage, 0 if it has none.
C19_ExecutorNeverThrows ==
  probe.pc = "returned" =>
    /\ DOMAIN probe.result = {"text", "responseId", "tokens"}
    /\ probe.result.text # <<>>
    /\ IF probe.outcome.ok
         THEN /\ probe.result.responseId = probe.outcome.id
              /\ probe.result.responseId # EmptyString
              /\ probe.result.tokens
                   = IF probe.outcome.usage = NoUsage THEN 0
                     ELSE probe.outcome.usage
              /\ probe.outcome.output_text # <<>>
                   => probe.result.text = probe.outcome.output_text
         ELSE /\ probe.result.responseId = EmptyString
              /\ probe.result.tokens = 0
              /\ Head(probe.result.text) \in ErrorHeads

\* executeSingleSearch has returned from a call that threw something that is
\* not an Error
C19_Witness ==
  /\ probe.pc = "returned"
  /\ ~probe.outcome.ok
  /\ ~probe.outcome.isError
  /\ probe.result = SearchResult(<<"Error:", "Unknown error occurred">>,
                                 EmptyString, 0)

\* C20 (as claimed): an entry of the store that has expired (now -
\* lastAccessAt >= ttl) is never again a session that get() would return:
\* after any step it is gone from the store or still expired.
C20_ExpiredStaysAbsent ==
  [][\A id \in Ids(sessions) :
       (now - heap[id].lastAccessAt >= cfg.ttl)
         => ~(/\ id \in Ids(sessions')
              /\ now' - heap'[id].lastAccessAt < cfg.ttl)]_vars

\* the session id the request in slot r carries, in a step of that request
Carried(r) == IF req[r].pc = "idle" THEN req'[r].sessionId
              ELSE req[r].sessionId

\* this step is a step of the handler in slot r
Moves(r) == req'[r] # req[r] /\ req[r].pc # "done"

\* C21: a step of a request that carries a session id changes no field of
\* and removes no session other than the one it carries; and the step in
\* which its query succeeds on its stored session sets that session's token
\* to the id the provider returned to it and adds 1 and the answer's tokens
\* to the counters as they were left by the session's own requests.
C21_OtherSessionsUntouched ==
  [][\A r \in Slots :
       (Moves(r) /\ Carried(r) \notin {Omitted, EmptyString})
         => /\ \A id \in Ids(sessions) \ {Carried(r)} :
                 id \in Ids(sessions') /\ heap'[id] = heap[id]
            /\ (Settles(r) /\ ~Failed /\ req[r].session \in Ids(sessions))
                 => /\ heap'[req[r].session].lastResponseId = nextResp
                    /\ heap'[req[r].session].queryCount
                         = heap[req[r].session].queryCount + 1
                    /\ heap'[req[r].session].totalTokens
                         - heap[req[r].session].totalTokens
                           \in {0, MaxUsage}]_vars

\* two requests carrying the ids of two different stored sessions are in
\* flight at once, one after a successful compaction of its session, and
\* the other session still has its count
C21_Witness ==
  /\ req[1].pc = "querying" /\ req[2].pc = "querying"
  /\ Supplied(req[1]) /\ Supplied(req[2])
  /\ req[1].session # req[2].session
  /\ {req[1].session, req[2].session} \subseteq Ids(sessions)
  /\ \E r \in Slots :
       /\ Compacted(req[r])
       /\ heap[req[r].session].queryCount = 0
       /\ heap[req[3 - r].session].queryCount = 1

\* C22: from one state to the next, queryCount and totalTokens of a session
\* that stays in the store become 0 in the step that applies a successful
\* compaction of that session, and in every other step neither is lower
\* than it was.
C22_CountersMonotone ==
  [][\A id \in Ids(sessions) \cap Ids(sessions') :
       IF \E r \in Slots : req[r].session = id /\ Compacts(r)
         THEN heap'[id].queryCount = 0 /\ heap'[id].totalTokens = 0
         ELSE /\ heap'[id].queryCount >= heap[id].queryCount
              /\ heap'[id].totalTokens >= heap[id].totalTokens]_vars

\* a request whose compaction failed has returned, and its session has the
\* count of two queries and the tokens of an answer
C22_Witness ==
  \E r \in Slots :
    /\ req[r].pc = "done"
    /\ req[r].response.warning
    /\ req[r].response.sessionId \in Ids(sessions)
    /\ heap[req[r].response.sessionId].queryCount = 2
    /\ heap[req[r].response.sessionId].totalTokens >= MaxUsage

\* C23: every session in the store has lastAccessAt >= createdAt (the
\* clock never goes backwards).
C23_AccessAfterCreation ==
  \A id \in Ids(sessions) : heap[id].lastAccessAt >= heap[id].createdAt

\* the store holds a session that no query has updated and whose
\* lastAccessAt is later than its createdAt: the clock moved between the
\* two reads of create()
C23_Witness ==
  \E id \in Ids(sessions) :
    /\ heap[id].queryCount = 0
    /\ heap[id].lastResponseId = EmptyString
    /\ heap[id].lastAccessAt > heap[id].createdAt

\* C24: update(id, responseId, tokens) for an id the store has sets that
\* session's lastResponseId to responseId and its lastAccessAt to now, adds
\* 1 to its queryCount and tokens to its totalTokens, and changes nothing
\* else: not its id or createdAt, not another session, not the Map.
C24_UpdateEffect ==
  (probe.pc = "updated" /\ probe.id \in Ids(probe.m))
    => /\ sessions = probe.m
       /\ DOMAIN heap = DOMAIN probe.h
       /\ \A x \in Ids(probe.m) \ {probe.id} : heap[x] = probe.h[x]
       /\ heap[probe.id].lastResponseId = probe.responseId
       /\ heap[probe.id].lastAccessAt = now
       /\ heap[probe.id].queryCount = probe.h[probe.id].queryCount + 1
       /\ heap[probe.id].totalTokens
            = probe.h[probe.id].totalTokens + probe.tokens
       /\ heap[probe.id].id = probe.id
       /\ heap[probe.id].createdAt = probe.h[probe.id].createdAt

\* update was applied with tokens to the second of three sessions, which
\* was last accessed before now and had another token
C24_Witness ==
  /\ probe.pc = "updated"
  /\ Len(probe.m) = 3
  /\ probe.id = 2
  /\ probe.tokens = MaxUsage
  /\ probe.h[2].lastAccessAt < now
  /\ probe.h[2].lastResponseId # probe.responseId
  /\ heap[2].lastAccessAt = now

\* C28: resetCounters(id) for an id the store has sets that session's
\* queryCount and totalTokens to 0 and changes nothing else: not its token,
\* createdAt or lastAccessAt, not another session, not the Map.  For an id
\* the store does not have it changes nothing and creates no entry.
C28_ResetCountersEffect ==
  probe.pc = "reset"
    => /\ sessions = probe.m
       /\ DOMAIN heap = DOMAIN probe.h
       /\ \A x \in Ids(probe.m) \ {probe.id} : heap[x] = probe.h[x]
       /\ probe.id \in Ids(probe.m)
            => /\ heap[probe.id].queryCount = 0
               /\ heap[probe.id].totalTokens = 0
               /\ heap[probe.id].lastResponseId
                    = probe.h[probe.id].lastResponseId
               /\ heap[probe.id].lastAccessAt
                    = probe.h[probe.id].lastAccessAt
               /\ heap[probe.id].createdAt = probe.h[probe.id].createdAt
               /\ heap[probe.id].id = probe.id

\* resetCounters was applied to a session that had a token, a count and
\* tokens and was last accessed before now: the counters are 0 and
\* lastAccessAt is as old as it was
C28_Witness ==
  /\ probe.pc = "reset"
  /\ probe.id \in Ids(probe.m)
  /\ Len(probe.m) > 1
  /\ probe.h[probe.id].queryCount > 0
  /\ probe.h[probe.id].totalTokens > 0
  /\ heap[probe.id].queryCount = 0
  /\ heap[probe.id].lastAccessAt < now

\* the entries of the store m that have not expired at time t
Unexpired(m, h, t) == {x \in Ids(m) : t - h[x].lastAccessAt < cfg.ttl}

\* how many unexpired entries come before x in the order of lastAccessAt,
\* the earlier inserted first among equals
Rank(m, h, t, x) ==
  Cardinality({y \in Unexpired(m, h, t) :
                 \/ h[y].lastAccessAt < h[x].lastAccessAt
                 \/ h[y].lastAccessAt = h[x].lastAccessAt /\ y < x})

\* C25: when cleanup has returned (maxSessions >= 0) no entry of the store
\* has now - lastAccessAt >= ttl and the store has at most maxSessions
\* entries; it holds, unchanged and in their order, exactly the unexpired
\* entries that are not among the surplus of the least recently accessed.
C25_CleanupPostcondition ==
  probe.pc = "cleaned" =>
    LET live    == Unexpired(probe.m, probe.h, now)
        surplus == IF Cardinality(live) > cfg.maxSessions
                     THEN Cardinality(live) - cfg.maxSessions ELSE 0
        kept    == {x \in live : Rank(probe.m, probe.h, now, x) >= surplus}
    IN /\ \A id \in Ids(sessions) : now - heap[id].lastAccessAt < cfg.ttl
       /\ Len(sessions) <= cfg.maxSessions
       /\ Ids(sessions) = kept
       /\ sessions = SelectSeq(probe.m, LAMBDA id : id \in kept)
       /\ \A id \in kept : heap[id] = probe.h[id]

\* cleanup has run on three entries of which the first had just reached the
\* TTL and the third was older: only the second is left
C25_Witness ==
  /\ probe.pc = "cleaned"
  /\ probe.m = <<1, 2, 3>>
  /\ sessions = <<2>>
  /\ now - probe.h[1].lastAccessAt = cfg.ttl
  /\ now - probe.h[3].lastAccessAt > cfg.ttl

\* C26: when a request without sessionId has created its session, that
\* session has an id no session had before (ids are handed out once), no
\* token, both counters 0, createdAt the time create() was called and
\* lastAccessAt between that time and now; it is in the store, as the last
\* inserted entry, whatever the sweep and the eviction of that create()
\* have removed, and the entries that were removed are other sessions.
C26_CreatedSession ==
  [][\A r \in Slots :
       (Starts(r) /\ ~Supplied(req'[r]) /\ req'[r].pc # "spinning")
         => LET id == req'[r].session IN
            /\ id = nextId /\ nextId' = nextId + 1
            /\ id \notin Ids(sessions) /\ id \notin DOMAIN heap
            /\ sessions' # <<>> /\ sessions'[Len(sessions')] = id
            /\ \A i \in 1..(Len(sessions') - 1) :
                 sessions'[i] \in Ids(sessions)
            /\ heap'[id] = [Session(id, now, now) EXCEPT
                              !.lastAccessAt = heap'[id].lastAccessAt]
            /\ heap'[id].lastAccessAt >= now
            /\ heap'[id].lastAccessAt <= now']_vars

\* with maxSessions 0 the second session created is in the store, alone and
\* new, while the request that created it is in flight
C26_Witness ==
  \E r \in Slots :
    /\ cfg.maxSessions = 0
    /\ req[r].pc = "querying"
    /\ ~Supplied(req[r])
    /\ req[r].session = 2
    /\ sessions = <<2>>
    /\ heap[2].lastResponseId = EmptyString
    /\ heap[2].queryCount = 0

\* C27: compactConversation makes its first call when it is entered.  When
\* a call succeeds it returns at once, reporting success and that call's
\* id; when the first call fails it makes a second one; when the second
\* fails it reports failure.  So it makes 1 or 2 calls, and reports failure
\* exactly when both have failed.
C27_CompactionAttempts ==
  [][\A r \in Slots :
       /\ (req[r].pc # "compacting" /\ req'[r].pc = "compacting")
            => req'[r].attempt = 1
       /\ req'[r].pc = "compacting" => req'[r].attempt \in {1, 2}
       /\ (req[r].pc = "compacting" /\ req'[r] # req[r])
            => \/ /\ req'[r].pc = "compacting"
                  /\ req[r].attempt = 1 /\ req'[r].attempt = 2
                  /\ nextResp' = nextResp
               \/ /\ req'[r].pc = "querying"
                  /\ req'[r].attempt = req[r].attempt
                  /\ req'[r].compactResult.success
                  /\ req'[r].compactResult.newResponseId
                       \in {EmptyString, nextResp}
               \/ /\ req'[r].pc = "querying"
                  /\ req[r].attempt = 2 /\ req'[r].attempt = 2
                  /\ req'[r].compactResult = NoCompactResult
                  /\ nextResp' = nextResp]_vars

\* the query of a request is in flight after a compaction whose first call
\* failed and whose second call succeeded
C27_Witness ==
  \E r \in Slots :
    /\ req[r].pc = "querying"
    /\ req[r].attempt = 2
    /\ req[r].compactResult.success
    /\ req[r].compactResult.newResponseId # EmptyString
    /\ ~req[r].warning

\* C29: a request begins with the lookup or the creation of its session;
\* the compaction, when shouldCompact says it is due, begins in that same
\* step and only there; the query is issued once, in the step that ends
\* the lookup or the compaction, and after it the request only returns; a
\* session's queryCount goes up by 1 only in the step in which a query on
\* it returns; and the query issued after a successful compaction carries
\* the compaction's token, not the one the compaction call was sent with.
C29_StepOrder ==
  [][/\ \A r \in Slots :
          /\ Starts(r)
               => /\ req'[r].pc \in {"compacting", "querying", "done",
                                     "spinning"}
                  /\ req'[r].pc \in {"compacting", "querying"}
                       => /\ req'[r].session \in Ids(sessions')
                          /\ (req'[r].pc = "compacting")
                               <=> shouldCompact(heap'[req'[r].session])
          /\ req'[r].pc = "compacting"
               => req[r].pc \in {"idle", "compacting"}
          /\ Issues(r) => req[r].pc \in {"idle", "compacting"}
          /\ (req[r].pc = "querying" /\ req'[r] # req[r])
               => req'[r].pc = "done"
          /\ (req[r].pc = "done" /\ req'[r] # req[r])
               => req'[r].pc = "idle"
          /\ (Issues(r) /\ Compacted(req'[r]))
               => /\ req[r].pc = "compacting"
                  /\ req'[r].sent = req'[r].compactResult.newResponseId
                  /\ req'[r].sent # req[r].sent
     /\ \A id \in Ids(sessions) \cap Ids(sessions') :
          heap'[id].queryCount > heap[id].queryCount
            => /\ heap'[id].queryCount = heap[id].queryCount + 1
               /\ \E r \in Slots : req[r].session = id /\ Settles(r)]_vars

\* compaction was due by the query count; it has succeeded at the first
\* call and the request's query is in flight with the compaction's token
C29_Witness ==
  \E r \in Slots :
    /\ cfg.compactionQueryThreshold = 2
    /\ req[r].pc = "querying"
    /\ req[r].attempt = 1
    /\ Compacted(req[r])
    /\ req[r].sent = req[r].compactResult.newResponseId
    /\ heap[req[r].session].queryCount = 0

\* the word is in the message of the Error that was thrown
Mentions(outcome, word) ==
  outcome.isError /\ \E i \in 1..Len(outcome.message) :
                        outcome.message[i] = word

\* C30: for a provider call that fails, the text executeSingleSearch returns
\* is the API-key message when the error's message contains "api_key",
\* whatever else it contains; else the rate-limit message when it contains
\* "rate_limit", with or without "timeout"; else the timeout message when it
\* contains "timeout"; else "Error:" followed by the error's message, or by
\* "Unknown error occurred" when what was thrown is not an Error.  The text
\* is always one of these four, and the fourth is none of the first three.
C30_ErrorClassification ==
  (probe.pc = "returned" /\ ~probe.outcome.ok)
    => LET o == probe.outcome
           text == probe.result.text
           fixed == {<<"Error: Invalid API key.">>,
                     <<"Error: Rate limit exceeded.">>,
                     <<"Error: Request timeout.">>}
       IN /\ Mentions(o, "api_key")
               => text = <<"Error: Invalid API key.">>
          /\ (~Mentions(o, "api_key") /\ Mentions(o, "rate_limit"))
               => text = <<"Error: Rate limit exceeded.">>
          /\ (/\ ~Mentions(o, "api_key") /\ ~Mentions(o, "rate_limit")
              /\ Mentions(o, "timeout"))
               => text = <<"Error: Request timeout.">>
          /\ (/\ ~Mentions(o, "api_key") /\ ~Mentions(o, "rate_limit")
              /\ ~Mentions(o, "timeout"))
               => /\ text \notin fixed
                  /\ Head(text) = "Error:"
                  /\ Tail(text) = IF o.isError THEN o.message
                                  ELSE <<"Unknown error occurred">>

\* executeSingleSearch has returned the API-key message for an error whose
\* message has "timeout" and "rate_limit" before "api_key"
C30_Witness ==
  /\ probe.pc = "returned"
  /\ ~probe.outcome.ok
  /\ probe.outcome.isError
  /\ probe.outcome.message = <<"timeout", "rate_limit", "api_key">>
  /\ probe.result.text = <<"Error: Invalid API key.">>

\* C31: with maxSessions >= 0 the store never holds more than
\* maxSessions + 1 entries: create() brings the size down to maxSessions
\* and then inserts one entry, and nothing else inserts.
C31_StoreBound ==
  cfg.maxSessions >= 0 => Len(sessions) <= cfg.maxSessions + 1

\* two requests without sessionId have created their sessions while
\* maxSessions is 1, and the store holds both
C31_Witness ==
  /\ cfg.maxSessions = 1
  /\ nextId = 3
  /\ Len(sessions) = cfg.maxSessions + 1

\* C32 (as claimed): create() returns a session whatever maxSessions is,
\* 0 and negative values included: a request without sessionId that starts
\* goes on, in the same step, with a session that is in the store.
C32_CreateTerminates ==
  [][\A r \in Slots :
       (Starts(r) /\ ~Supplied(req'[r]))
         => /\ req'[r].pc # "spinning"
            /\ req'[r].session \in Ids(sessions')]_vars

\* C33 (as claimed): when a request returns a response that is not an
\* error, the session whose id the response carries is in the store, in the
\* state the handler returns in, however the requests interleave.
C33_ReturnedSessionStored ==
  [][\A r \in Slots :
       (/\ req[r].pc # "done"
        /\ req'[r].pc = "done"
        /\ ~req'[r].response.isError)
         => req'[r].response.sessionId \in Ids(sessions')]_vars

\* C34 (as claimed): the compaction of the request in slot r was called
\* with the token req[r].sent.  When it succeeds while the stored session's
\* token is another one and its queryCount is above 0, that token is the id
\* of a query another request has completed and recorded since (only update
\* sets a token and leaves a count above 0).  That turn is then kept: the
\* session's token is still that id, the compacted token being the summary
\* of a conversation without it, and the count of that query is not erased.
C34_CompactionKeepsConcurrentTurn ==
  [][\A r \in Slots :
       (/\ Compacts(r)
        /\ req[r].session \in Ids(sessions)
        /\ heap[req[r].session].lastResponseId # req[r].sent
        /\ heap[req[r].session].queryCount > 0)
         => /\ heap'[req[r].session].lastResponseId
                 = heap[req[r].session].lastResponseId
            /\ heap'[req[r].session].queryCount > 0]_vars

\* C35: in a step that leaves a session in the store and applies no
\* compaction to it, its queryCount grows by the number of queries on it
\* that succeed in that step and its totalTokens by the usage of that
\* answer, whatever other requests on the same session are in flight and
\* whatever token they were sent with.  So over any overlap of requests on
\* one session the counters grow by exactly the successes and their usages.
C35_NoLostIncrement ==
  [][\A id \in Ids(sessions) \cap Ids(sessions') :
       LET winners == {r \in Slots : /\ Settles(r) /\ ~Failed
                                     /\ req[r].session = id}
       IN (~\E r \in Slots : Compacts(r) /\ req[r].session = id)
            => /\ heap'[id].queryCount
                    = heap[id].queryCount + Cardinality(winners)
               /\ winners = {} => heap'[id].totalTokens = heap[id].totalTokens
               /\ \A r \in winners :
                    \E outcome \in QueryOutcomes(req[r].input, nextResp) :
                       /\ outcome.ok
                       /\ heap'[id].totalTokens
                            = heap[id].totalTokens
                                + executeSingleSearch(outcome).tokens]_vars

\* two requests on one stored session overlapped without compaction: one
\* has returned its answer and the session counts it, the other is still
\* in flight with the token both were sent with
C35_Witness ==
  \E r \in Slots : \E x \in Slots \ {r} :
    /\ req[r].pc = "done"
    /\ ~req[r].response.isError
    /\ req[r].response.result # <<>>
    /\ Head(req[r].response.result) = "re:"
    /\ req[x].pc = "querying"
    /\ req[x].session = req[r].response.sessionId
    /\ req[x].session \in Ids(sessions)
    /\ req[x].compactResult = NoCompactResult
    /\ ~req[x].warning
    /\ req[x].sent # heap[req[x].session].lastResponseId
    /\ heap[req[x].session].queryCount = 2

\* C36: a session in the store whose token is empty has queryCount = 0 and
\* totalTokens = 0, before and after every step; and the token of a session
\* that stays in the store, once not empty, is not empty after any step.
C36_TokenBeforeCounters ==
  [][/\ \A id \in Ids(sessions) :
          heap[id].lastResponseId = EmptyString
            => heap[id].queryCount = 0 /\ heap[id].totalTokens = 0
     /\ \A id \in Ids(sessions') :
          heap'[id].lastResponseId = EmptyString
            => heap'[id].queryCount = 0 /\ heap'[id].totalTokens = 0
     /\ \A id \in Ids(sessions) \cap Ids(sessions') :
          heap[id].lastResponseId # EmptyString
            => heap'[id].lastResponseId # EmptyString]_vars

\* the store holds a session whose query failed, still without token and
\* with both counters at zero, and one whose compaction resolved without an
\* id and which has kept its token
C36_Witness ==
  /\ \E r \in Slots :
       /\ req[r].pc = "done"
       /\ ~req[r].response.isError
       /\ Head(req[r].response.result) \in ErrorHeads
       /\ req[r].response.sessionId \in Ids(sessions)
       /\ heap[req[r].response.sessionId].lastResponseId = EmptyString
       /\ heap[req[r].response.sessionId].queryCount = 0
  /\ \E r \in Slots :
       /\ req[r].pc = "querying"
       /\ req[r].compactResult.success
       /\ req[r].compactResult.newResponseId = EmptyString
       /\ req[r].session \in Ids(sessions)
       /\ heap[req[r].session].lastResponseId # EmptyString

\* C37 (as claimed): provided every provider call resolves or rejects, a
\* request that has started eventually returns a response.
C37_RequestReturns ==
  \A r \in Slots :
    (req[r].pc \notin {"idle", "done"}) ~> (req[r].pc = "done")

\* the compaction call of the request in slot r resolves in this step
\* without an id
ResolvesEmpty(r) ==
  /\ req[r].pc = "compacting"
  /\ req'[r].pc = "querying"
  /\ req'[r].compactResult.success
  /\ req'[r].compactResult.newResponseId = EmptyString

\* C38: when a compaction call resolves without an id, the step changes
\* nothing of the store (the session keeps its token and its counters), the
\* query is issued with the token the session had, and the warning is set;
\* the response of that request then carries the warning.  This is what a
\* compaction that failed for good does.
C38_EmptyCompactionIsFailure ==
  [][\A r \in Slots :
       /\ ResolvesEmpty(r)
            => /\ sessions' = sessions
               /\ heap' = heap
               /\ req'[r].sent = heap[req[r].session].lastResponseId
               /\ req'[r].warning
               /\ req'[r] = [AfterCompaction(req[r], heap, NoCompactResult)
                               EXCEPT !.compactResult = req'[r].compactResult]
       /\ (/\ Settles(r)
           /\ req[r].compactResult.success
           /\ req[r].compactResult.newResponseId = EmptyString)
            => req'[r].response.warning]_vars

\* the query of a request is in flight after its compaction resolved
\* without an id: the warning is set, the query was sent with the token the
\* session still has, and the session still counts its two queries
C38_Witness ==
  \E r \in Slots :
    /\ cfg.compactionQueryThreshold = 2
    /\ req[r].pc = "querying"
    /\ req[r].compactResult.success
    /\ req[r].compactResult.newResponseId = EmptyString
    /\ req[r].warning
    /\ req[r].session \in Ids(sessions)
    /\ req[r].sent # EmptyString
    /\ req[r].sent = heap[req[r].session].lastResponseId
    /\ heap[req[r].session].queryCount = 2

====
